---- MODULE Spec2Model ----
(***************************************************************************)
(* Model of the two programs of the repository:                            *)
(*   scripts/generate_test_report.py  (the report generator, "R")          *)
(*   test_download_integration.py     (the integration harness, "H")       *)
(* Each program is a sequential script; its state is its local variables,  *)
(* its position and what it has left on disk and on its exit status.       *)
(* Times are integers in units of 0.01 s, the precision the report shows.  *)
(***************************************************************************)
EXTENDS Integers, Sequences, FiniteSets, TLC

\* ------------------------------------------------------------------ bounds
MaxFiles == 2
MaxCases == 2

\* ------------------------------------------------- artifact files (inputs)
\* An XML attribute holding a number: absent, not a number, or a number.
Absent == [k |-> "absent", v |-> 0]
Bad == [k |-> "bad", v |-> 0]
Num(n) == [k |-> "num", v |-> n]

\* A <failure> or <error> child of a <testcase>.
NoMarker == [present |-> FALSE, hasMsg |-> FALSE, message |-> ""]
Marker(m) == [present |-> TRUE, hasMsg |-> TRUE, message |-> m]
MarkerNoMsg == [present |-> TRUE, hasMsg |-> FALSE, message |-> ""]

Case(n, tm, f, e) ==
  [name |-> n, classname |-> "Cls", time |-> tm, failure |-> f, error |-> e]

MalformedFile == [kind |-> "malformed"]
NoSuiteFile == [kind |-> "nosuite"]
Suite(hasName, t, f, e, tm, cs) ==
  [kind |-> "suite", path |-> "r.xml", hasName |-> hasName, name |-> "S",
   tests |-> t, failures |-> f, errors |-> e, time |-> tm, cases |-> cs]

PassCase == Case("p", Num(1), NoMarker, NoMarker)
FailCase == Case("f", Num(2), Marker("expected 1"), NoMarker)
ErrorCase == Case("e", Num(3), NoMarker, MarkerNoMsg)
BothCase == Case("b", Num(4), Marker("expected 2"), Marker("raised"))
BadTimeCase == Case("x", Bad, NoMarker, NoMarker)
NoTimeCase == Case("n", Absent, Marker(""), NoMarker)

CaseCycle == <<PassCase, FailCase, ErrorCase, BothCase>>

\* n consecutive cases of CaseCycle, starting at position o (wrapping around).
CycleList(o, n) == [i \in 1..n |-> CaseCycle[((o + i - 2) % Len(CaseCycle)) + 1]]

\* No case, every single case, and every run of MaxCases cases.
CaseLists ==
  {CycleList(o, n) : o \in 1..Len(CaseCycle), n \in {0, 1, MaxCases}}

\* Declared <<tests, failures, errors>>: consistent, inconsistent and negative.
DeclaredCounts ==
  {<<2, 0, 0>>, <<1, 0, 1>>, <<0, 1, 1>>, <<1, 1, -1>>}

\* Suites whose attributes are all numbers.
NumericSuites ==
  {Suite(TRUE, Num(d[1]), Num(d[2]), Num(d[3]), Num(5), cs) :
     d \in DeclaredCounts, cs \in CaseLists}

\* Suites with one attribute absent or not a number.
OddSuites ==
  {Suite(FALSE, Num(1), Num(0), Num(0), Num(5), <<>>),
   Suite(TRUE, Absent, Num(0), Num(0), Num(5), <<>>),
   Suite(TRUE, Bad, Num(0), Num(0), Num(5), <<>>),
   Suite(TRUE, Num(1), Absent, Num(0), Num(5), <<>>),
   Suite(TRUE, Num(1), Bad, Num(0), Num(5), <<>>),
   Suite(TRUE, Num(1), Num(1), Absent, Num(5), <<PassCase>>),
   Suite(TRUE, Num(1), Num(0), Bad, Num(5), <<>>),
   Suite(TRUE, Num(1), Num(0), Num(0), Absent, <<>>),
   Suite(TRUE, Num(1), Num(0), Num(0), Bad, <<>>),
   Suite(TRUE, Num(1), Num(0), Num(0), Num(5), <<BadTimeCase>>),
   Suite(TRUE, Num(1), Num(1), Num(0), Num(5), <<NoTimeCase>>)}

Artifacts == {MalformedFile, NoSuiteFile} \cup NumericSuites \cup OddSuites

SeqsUpTo(S, n) == UNION {[1..k -> S] : k \in 0..n}

\* A directory entry: a file name with or without the .xml suffix.
XmlEntry(a) == [xml |-> TRUE, content |-> a]
OtherEntry == [xml |-> FALSE, content |-> NoSuiteFile]
DirEntries == {OtherEntry} \cup {XmlEntry(a) : a \in Artifacts}

\* ------------------------------------------------- report generator: state
VARIABLES
  argv,            \* command line: "none" (wrong count), "notdir", "dir"
  directory,       \* entries of the results directory, in listing order
  r_pc,            \* position of the report generator
  xml_files,       \* generate_html_report: result of glob
  idx,             \* index in xml_files of the next file of the for loop
  all_results,
  total_tests,
  total_failures,
  total_errors,
  total_time,
  report,          \* <<>> while no file is written, else <<the document>>
  r_out,           \* diagnostics printed, in order
  r_exit           \* process exit status (NoExit while running)

r_vars == <<argv, directory, r_pc, xml_files, idx, all_results, total_tests,
            total_failures, total_errors, total_time, report, r_out, r_exit>>

\* ------------------------------------------------ integration harness: state
VARIABLES
  cwd,             \* "root" (has build/), "build" (is build/), "elsewhere"
  exe_exists,      \* bin/falcon-cli exists
  h_pc,            \* position of the harness
  files,           \* Dests -> file state, in the build directory
  child,           \* the launched process: "none", "running", "exited"
  child_rc,        \* its exit status once exited
  signalled,       \* proc.terminate() was called on it
  result,          \* what subprocess.run returned or raised
  pair_idx,        \* Scenario B: index in urls of the current pair
  success_count,
  partial_size,
  final_size,
  results,         \* main: list of <<test_name, verdict>>
  started,         \* scenarios entered, in order
  h_out,           \* summary lines printed
  h_exit,          \* process exit status (NoExit while running)
  alive,           \* number of launched downloader processes not yet dead
  launches         \* launch calls made so far, per scenario

h_vars == <<cwd, exe_exists, h_pc, files, child, child_rc, signalled, result,
            pair_idx, success_count, partial_size, final_size, results, started,
            h_out, h_exit, alive, launches>>

vars == <<r_vars, h_vars>>

NoExit == 0 - 1

\* ------------------------------------------------ parse_xml_file (pure)
\* int(x.get(attr, 0)) / float(x.get(attr, 0)): the default when absent.
AttrValue(a) == IF a.k = "num" THEN a.v ELSE 0

\* ET.parse raises on a malformed document; int()/float() raise ValueError.
ParseRaises(f) ==
  \/ f.kind = "malformed"
  \/ /\ f.kind = "suite"
     /\ \/ f.tests.k = "bad"
        \/ f.failures.k = "bad"
        \/ f.errors.k = "bad"
        \/ f.time.k = "bad"
        \/ \E i \in 1..Len(f.cases) : f.cases[i].time.k = "bad"

\* status / failure_msg of one <testcase>: the error marker is looked at last.
\* A variant that never looks for the error marker.
CaseStatus_NoError(c) ==
  IF c.failure.present THEN "FAIL" ELSE "PASS"

CaseStatus(c) ==
  IF c.error.present THEN "ERROR"
  ELSE IF c.failure.present THEN "FAIL"
  ELSE "PASS"

\* A variant that looks for the error marker only when there is no failure
\* marker.
CaseMessage_FailureFirst(c) ==
  IF c.failure.present THEN c.failure.message
  ELSE IF c.error.present THEN c.error.message
  ELSE ""

CaseMessage(c) ==
  IF c.error.present THEN c.error.message
  ELSE IF c.failure.present THEN c.failure.message
  ELSE ""

ParseCase(c) ==
  [name |-> c.name, classname |-> c.classname, time |-> AttrValue(c.time),
   status |-> CaseStatus(c), message |-> CaseMessage(c)]

\* The variable `time` is assigned the suite's time and then, in the loop,
\* every case's time: what is returned is the last value assigned.
ReturnedTime(f) ==
  IF f.cases = <<>> THEN AttrValue(f.time)
  ELSE AttrValue(f.cases[Len(f.cases)].time)

SuiteName(f) == IF f.hasName THEN f.name ELSE f.path

\* A variant that returns an empty suite for a file without a suite container.
parse_xml_file_EmptySuite(f) ==
  IF ParseRaises(f) THEN <<>>
  ELSE IF f.kind = "nosuite"
  THEN <<[name |-> "", tests |-> 0, failures |-> 0, errors |-> 0, time |-> 0,
          test_cases |-> <<>>]>>
  ELSE <<[name |-> SuiteName(f),
          tests |-> AttrValue(f.tests),
          failures |-> AttrValue(f.failures),
          errors |-> AttrValue(f.errors),
          time |-> ReturnedTime(f),
          test_cases |-> [i \in 1..Len(f.cases) |-> ParseCase(f.cases[i])]]>>

\* None is <<>>, a result is <<dict>>.
parse_xml_file(f) ==
  IF ParseRaises(f) THEN <<>>
  ELSE IF f.kind = "nosuite" THEN <<>>
  ELSE <<[name |-> SuiteName(f),
          tests |-> AttrValue(f.tests),
          failures |-> AttrValue(f.failures),
          errors |-> AttrValue(f.errors),
          time |-> ReturnedTime(f),
          test_cases |-> [i \in 1..Len(f.cases) |-> ParseCase(f.cases[i])]]>>

\* --------------------------------------------- generate_html_report (pure)
\* `if result:` - a dict with keys is true, None is false.
Accepted(parsed) == parsed # <<>>

\* A variant that counts the enumerated cases instead of the declared count.
AddTests_CaseCount(total, r) == total + Len(r.test_cases)

AddTests(total, r) == total + r.tests
AddFailures(total, r) == total + r.failures
AddErrors(total, r) == total + r.errors
AddTime(total, r) == total + r.time

\* A variant that clamps a negative value to 0.
Passed_Clamped(tests, failures, errors) ==
  IF tests - failures - errors < 0 THEN 0 ELSE tests - failures - errors

Passed(tests, failures, errors) == tests - failures - errors

SuiteRow(r) ==
  [name |-> r.name, tests |-> r.tests,
   passed |-> Passed(r.tests, r.failures, r.errors),
   failures |-> r.failures, errors |-> r.errors, time |-> r.time]

\* A variant that looks at the declared failures only.
HasDetail_FailuresOnly(r) == r.failures > 0

\* The suites that get a heading in the detail section.
HasDetail(r) == r.failures > 0 \/ r.errors > 0

Listed(tc) == tc.status # "PASS"

DetailEntry(tc) ==
  [test |-> <<tc.classname, tc.name>>,
   css_class |-> IF tc.status = "FAIL" THEN "fail" ELSE "error",
   status |-> tc.status,
   time |-> tc.time,
   shows_message |-> tc.message # "",
   message |-> tc.message]

DetailSection(r) ==
  LET listed == SelectSeq(r.test_cases, Listed)
  IN  [heading |-> r.name,
       entries |-> [i \in 1..Len(listed) |-> DetailEntry(listed[i])]]

RenderDetails(suites) ==
  LET shown == SelectSeq(suites, HasDetail)
  IN  [i \in 1..Len(shown) |-> DetailSection(shown[i])]

RenderReport(suites, tests, failures, errors, time) ==
  [summary |-> [tests |-> tests, passed |-> Passed(tests, failures, errors),
                failures |-> failures, errors |-> errors, time |-> time],
   rows |-> [i \in 1..Len(suites) |-> SuiteRow(suites[i])],
   details |-> RenderDetails(suites)]

\* glob(results_dir/*.xml): the entries with the suffix, in listing order.
IsXml(e) == e.xml
Glob(dir) ==
  LET m == SelectSeq(dir, IsXml) IN [i \in 1..Len(m) |-> m[i].content]

\* ---------------------------------------------- report generator: actions
R_Init ==
  /\ argv \in {"none", "notdir", "dir"}
  /\ directory \in SeqsUpTo(DirEntries, MaxFiles)
  /\ (argv # "dir" => directory = <<>>)
  /\ r_pc = "main"
  /\ xml_files = <<>>
  /\ idx = 0
  /\ all_results = <<>>
  /\ total_tests = 0
  /\ total_failures = 0
  /\ total_errors = 0
  /\ total_time = 0
  /\ report = <<>>
  /\ r_out = <<>>
  /\ r_exit = NoExit

\* main(): the argument checks, sys.exit(1) on each.
R_MainUsage ==
  /\ r_pc = "main"
  /\ argv = "none"
  /\ r_out' = Append(r_out, "usage")
  /\ r_exit' = 1
  /\ r_pc' = "exited"
  /\ UNCHANGED <<argv, directory, xml_files, idx, all_results, total_tests,
                 total_failures, total_errors, total_time, report>>
  /\ UNCHANGED h_vars

R_MainNotDir ==
  /\ r_pc = "main"
  /\ argv = "notdir"
  /\ r_out' = Append(r_out, "no such directory")
  /\ r_exit' = 1
  /\ r_pc' = "exited"
  /\ UNCHANGED <<argv, directory, xml_files, idx, all_results, total_tests,
                 total_failures, total_errors, total_time, report>>
  /\ UNCHANGED h_vars

\* main() calls generate_html_report, which globs the directory.
R_Glob ==
  /\ r_pc = "main"
  /\ argv = "dir"
  /\ xml_files' = Glob(directory)
  /\ idx' = 1
  /\ r_pc' = "glob"
  /\ UNCHANGED <<argv, directory, all_results, total_tests, total_failures,
                 total_errors, total_time, report, r_out, r_exit>>
  /\ UNCHANGED h_vars

\* `if not xml_files: print(...); return`, and main() then falls off its end.
R_NoFiles ==
  /\ r_pc = "glob"
  /\ xml_files = <<>>
  /\ r_out' = Append(r_out, "no xml files")
  /\ r_exit' = 0
  /\ r_pc' = "exited"
  /\ UNCHANGED <<argv, directory, xml_files, idx, all_results, total_tests,
                 total_failures, total_errors, total_time, report>>
  /\ UNCHANGED h_vars

R_StartLoop ==
  /\ r_pc = "glob"
  /\ xml_files # <<>>
  /\ r_pc' = "loop"
  /\ UNCHANGED <<argv, directory, xml_files, idx, all_results, total_tests,
                 total_failures, total_errors, total_time, report, r_out,
                 r_exit>>
  /\ UNCHANGED h_vars

\* One iteration of `for xml_file in xml_files`.
R_ParseFile ==
  /\ r_pc = "loop"
  /\ idx <= Len(xml_files)
  /\ LET f == xml_files[idx]
         parsed == parse_xml_file(f)
     IN  /\ r_out' = IF ParseRaises(f) THEN Append(r_out, "parse error")
                      ELSE r_out
         /\ IF Accepted(parsed)
            THEN /\ all_results' = Append(all_results, parsed[1])
                 /\ total_tests' = AddTests(total_tests, parsed[1])
                 /\ total_failures' = AddFailures(total_failures, parsed[1])
                 /\ total_errors' = AddErrors(total_errors, parsed[1])
                 /\ total_time' = AddTime(total_time, parsed[1])
            ELSE UNCHANGED <<all_results, total_tests, total_failures,
                             total_errors, total_time>>
  /\ idx' = idx + 1
  /\ UNCHANGED <<argv, directory, r_pc, xml_files, report, r_exit>>
  /\ UNCHANGED h_vars

\* After the loop: build the document, write it, print, return; exit 0.
R_WriteReport ==
  /\ r_pc = "loop"
  /\ idx > Len(xml_files)
  /\ report' = <<RenderReport(all_results, total_tests, total_failures,
                              total_errors, total_time)>>
  /\ r_out' = Append(r_out, "report generated")
  /\ r_exit' = 0
  /\ r_pc' = "exited"
  /\ UNCHANGED <<argv, directory, xml_files, idx, all_results, total_tests,
                 total_failures, total_errors, total_time>>
  /\ UNCHANGED h_vars

R_Next ==
  \/ R_MainUsage
  \/ R_MainNotDir
  \/ R_Glob
  \/ R_NoFiles
  \/ R_StartLoop
  \/ R_ParseFile
  \/ R_WriteReport

\* ------------------------------------------ integration harness: constants
FullSize == 1024

Dests == {"test_download.json", "uuid.json", "ip.json", "user-agent.json",
          "resume_test.bin"}

Scenarios == {"A", "B", "C"}

\* Scenario B's (url, filename) list, by filename.
urls == <<"uuid.json", "ip.json", "user-agent.json">>

NoFile == [exists |-> FALSE, size |-> 0, slideshow |-> FALSE]
FileOf(sz, sl) == [exists |-> TRUE, size |-> sz, slideshow |-> sl]
Sizes == {0, FullSize - 512, FullSize, FullSize + 1024}
\* What a downloader process can leave at its destination.
FileStates ==
  {NoFile} \cup {FileOf(sz, sl) : sz \in Sizes, sl \in {FALSE}}
           \cup {FileOf(sz, TRUE) : sz \in Sizes \ {0}}

NoResult == [kind |-> "none", returncode |-> 0]
Exit(rc) == [kind |-> "exit", returncode |-> rc]
TimeoutExpired == [kind |-> "timeout", returncode |-> 0]
OSError == [kind |-> "oserror", returncode |-> 0]

H_Init ==
  /\ cwd \in {"root", "build", "elsewhere"}
  /\ exe_exists \in BOOLEAN
  /\ (cwd = "elsewhere" => ~exe_exists)
  /\ h_pc = "main"
  /\ files = [d \in Dests |-> NoFile]
  /\ child = "none"
  /\ child_rc = 0
  /\ signalled = FALSE
  /\ result = NoResult
  /\ pair_idx = 0
  /\ success_count = 0
  /\ partial_size = 0
  /\ final_size = 0
  /\ results = <<>>
  /\ started = <<>>
  /\ h_out = <<>>
  /\ h_exit = NoExit
  /\ alive = 0
  /\ launches = [sc \in Scenarios |-> 0]

\* The scenario a launch position belongs to.
LaunchScenario(at) ==
  IF at = "A_launch" THEN "A" ELSE IF at = "B_launch" THEN "B" ELSE "C"

\* The destination the process launched at this position writes.
Dest ==
  IF h_pc \in {"A_launch", "A_wait", "A_check"} THEN "test_download.json"
  ELSE IF h_pc \in {"B_launch", "B_wait", "B_check"} THEN urls[pair_idx]
  ELSE "resume_test.bin"

\* A variant without the removal.
Cleanup_Skipped(fs, d) == fs

\* `if os.path.exists(f): os.remove(f)`
Cleanup(fs, d) == [fs EXCEPT ![d] = NoFile]

\* --------------------------------------------- scenario verdicts (pure)
\* A variant without the content check.
HttpVerdict_NoContent(res, f) ==
  IF res.kind # "exit" THEN FALSE
  ELSE IF res.returncode # 0 THEN FALSE
  ELSE f.exists

\* test_http_download: exit code, existence, content.
HttpVerdict(res, f) ==
  IF res.kind # "exit" THEN FALSE
  ELSE IF res.returncode # 0 THEN FALSE
  ELSE IF f.exists THEN f.slideshow
  ELSE FALSE

\* A variant that does not look for the destination.
PairOk_ExitOnly(res, f) == res.kind = "exit" /\ res.returncode = 0

\* test_multiple_downloads: one pair.
PairOk(res, f) == res.kind = "exit" /\ res.returncode = 0 /\ f.exists

\* A variant that checks the destination after a timeout as well.
ResumeVerdict_AfterTimeout(res, f) ==
  IF res.kind = "oserror" THEN FALSE
  ELSE IF res.returncode = 0 /\ f.exists THEN f.size = FullSize
  ELSE FALSE

\* A variant that accepts any size from the full size up.
ResumeVerdict_AtLeast(res, f) ==
  IF res.kind # "exit" THEN FALSE
  ELSE IF res.returncode = 0 /\ f.exists THEN f.size >= FullSize
  ELSE FALSE

\* test_resume: the check after the second run.
ResumeVerdict(res, f) ==
  IF res.kind # "exit" THEN FALSE
  ELSE IF res.returncode = 0 /\ f.exists THEN f.size = FullSize
  ELSE FALSE

Verdict(ok) == IF ok THEN "PASS" ELSE "FAIL"
SummaryLines(rs) == [k \in 1..Len(rs) |-> <<rs[k][1], Verdict(rs[k][2])>>]
PassedCount(rs) == Cardinality({k \in 1..Len(rs) : rs[k][2]})
ExitCode(rs) == IF PassedCount(rs) = Len(rs) THEN 0 ELSE 1

\* ------------------------------------------------ the downloader process
\* A running child may rewrite its destination in any way.
P_Write ==
  /\ child = "running"
  /\ \E fs \in FileStates :
       /\ fs # files[Dest]
       /\ files' = [files EXCEPT ![Dest] = fs]
  /\ UNCHANGED <<cwd, exe_exists, h_pc, child, child_rc, signalled, result, pair_idx,
                 success_count, partial_size, final_size, results, started,
                 h_out, h_exit>>
  /\ UNCHANGED r_vars
  /\ UNCHANGED <<alive, launches>>

\* It exits when it chooses to, signalled or not.
P_Exit ==
  /\ child = "running"
  /\ child' = "exited"
  /\ child_rc' \in {0, 1}
  /\ alive' = alive - 1
  /\ UNCHANGED launches
  /\ UNCHANGED <<cwd, exe_exists, h_pc, files, signalled, result, pair_idx,
                 success_count, partial_size, final_size, results, started,
                 h_out, h_exit>>
  /\ UNCHANGED r_vars

\* ------------------------------------------------------ harness: actions
\* subprocess.run, first half: the launch raises, or the child runs.
RunLaunch(at, wait, check) ==
  /\ h_pc = at
  /\ \/ /\ result' = OSError
        /\ h_pc' = check
        /\ UNCHANGED <<child, alive>>
     \/ /\ result' = NoResult
        /\ child' = "running"
        /\ alive' = alive + 1
        /\ h_pc' = wait
  /\ launches' = [launches EXCEPT ![LaunchScenario(at)] = @ + 1]
  /\ signalled' = FALSE
  /\ UNCHANGED <<cwd, exe_exists, files, child_rc, pair_idx, success_count,
                 partial_size, final_size, results, started, h_out, h_exit>>
  /\ UNCHANGED r_vars

\* A variant of the second half that leaves a timed-out child running.
RunWait_NoKill(wait, check) ==
  /\ h_pc = wait
  /\ \/ /\ child = "exited"
        /\ result' = Exit(child_rc)
        /\ child' = "none"
     \/ /\ child = "running"
        /\ result' = TimeoutExpired
        /\ UNCHANGED child
  /\ h_pc' = check
  /\ UNCHANGED <<cwd, exe_exists, files, child_rc, signalled, pair_idx,
                 success_count, partial_size, final_size, results, started,
                 h_out, h_exit, alive, launches>>
  /\ UNCHANGED r_vars

\* subprocess.run, second half: the child has exited, or the timeout
\* expires and run() kills and reaps it.
RunWait(wait, check) ==
  /\ h_pc = wait
  /\ \/ /\ child = "exited"
        /\ result' = Exit(child_rc)
        /\ UNCHANGED alive
     \/ /\ child = "running"
        /\ result' = TimeoutExpired
        /\ alive' = alive - 1
  /\ child' = "none"
  /\ UNCHANGED launches
  /\ h_pc' = check
  /\ UNCHANGED <<cwd, exe_exists, files, child_rc, signalled, pair_idx,
                 success_count, partial_size, final_size, results, started,
                 h_out, h_exit>>
  /\ UNCHANGED r_vars

\* main: chdir to build, or refuse to run from elsewhere.
H_Main ==
  /\ h_pc = "main"
  /\ IF cwd = "elsewhere"
     THEN /\ h_out' = Append(h_out, <<"error", "run from project root">>)
          /\ h_exit' = 1
          /\ h_pc' = "exited"
     ELSE /\ h_pc' = "check_exe"
          /\ UNCHANGED <<h_out, h_exit>>
  /\ UNCHANGED <<cwd, exe_exists, files, child, child_rc, signalled, result,
                 pair_idx, success_count, partial_size, final_size, results, started>>
  /\ UNCHANGED r_vars
  /\ UNCHANGED <<alive, launches>>

\* main: the executable check, then the call of test_http_download.
H_CheckExe ==
  /\ h_pc = "check_exe"
  /\ IF ~exe_exists
     THEN /\ h_out' = Append(h_out, <<"error", "falcon-cli not found">>)
          /\ h_exit' = 1
          /\ h_pc' = "exited"
          /\ UNCHANGED started
     ELSE /\ h_pc' = "A_launch"
          /\ started' = Append(started, "A")
          /\ UNCHANGED <<h_out, h_exit>>
  /\ UNCHANGED <<cwd, exe_exists, files, child, child_rc, signalled, result,
                 pair_idx, success_count, partial_size, final_size, results>>
  /\ UNCHANGED r_vars
  /\ UNCHANGED <<alive, launches>>

A_Launch == RunLaunch("A_launch", "A_wait", "A_check")
A_Wait == RunWait("A_wait", "A_check")

\* test_http_download after run(): the checks, the finally, the return; then
\* main appends the verdict and calls test_multiple_downloads.
A_Check ==
  /\ h_pc = "A_check"
  /\ results' = Append(results, <<"Basic HTTP Download",
                                  HttpVerdict(result, files[Dest])>>)
  /\ files' = Cleanup(files, Dest)
  /\ started' = Append(started, "B")
  /\ pair_idx' = 1
  /\ success_count' = 0
  /\ h_pc' = "B_launch"
  /\ UNCHANGED <<cwd, exe_exists, child, child_rc, signalled, result,
                 partial_size, final_size, h_out, h_exit>>
  /\ UNCHANGED r_vars
  /\ UNCHANGED <<alive, launches>>

B_Launch == RunLaunch("B_launch", "B_wait", "B_check")
B_Wait == RunWait("B_wait", "B_check")

\* One pair of test_multiple_downloads after run(): count, finally, next.
B_Check ==
  /\ h_pc = "B_check"
  /\ success_count' = IF PairOk(result, files[Dest]) THEN success_count + 1
                      ELSE success_count
  /\ files' = Cleanup(files, Dest)
  /\ IF pair_idx < Len(urls)
     THEN /\ pair_idx' = pair_idx + 1
          /\ h_pc' = "B_launch"
     ELSE /\ h_pc' = "B_return"
          /\ UNCHANGED pair_idx
  /\ UNCHANGED <<cwd, exe_exists, child, child_rc, signalled, result,
                 partial_size, final_size, results, started, h_out, h_exit>>
  /\ UNCHANGED r_vars
  /\ UNCHANGED <<alive, launches>>

\* test_multiple_downloads returns; main appends and calls test_resume.
B_Return ==
  /\ h_pc = "B_return"
  /\ results' = Append(results, <<"Multiple Downloads",
                                  success_count = Len(urls)>>)
  /\ started' = Append(started, "C")
  /\ h_pc' = "C_popen"
  /\ UNCHANGED <<cwd, exe_exists, files, child, child_rc, signalled, result,
                 pair_idx, success_count, partial_size, final_size, h_out, h_exit>>
  /\ UNCHANGED r_vars
  /\ UNCHANGED <<alive, launches>>

\* subprocess.Popen outside any try: a launch error leaves test_resume and
\* main as an unhandled exception (traceback, exit status 1).
C_Popen ==
  /\ h_pc = "C_popen"
  /\ \/ /\ h_pc' = "crashed"
        /\ h_exit' = 1
        /\ UNCHANGED <<child, alive>>
     \/ /\ child' = "running"
        /\ alive' = alive + 1
        /\ h_pc' = "C_sleep"
        /\ UNCHANGED h_exit
  /\ launches' = [launches EXCEPT !["C"] = @ + 1]
  /\ signalled' = FALSE
  /\ UNCHANGED <<cwd, exe_exists, files, child_rc, result, pair_idx, success_count,
                 partial_size, final_size, results, started, h_out>>
  /\ UNCHANGED r_vars

\* time.sleep(0.2)
C_Sleep ==
  /\ h_pc = "C_sleep"
  /\ h_pc' = "C_terminate"
  /\ UNCHANGED <<cwd, exe_exists, files, child, child_rc, signalled, result,
                 pair_idx, success_count, partial_size, final_size, results, started,
                 h_out, h_exit>>
  /\ UNCHANGED r_vars
  /\ UNCHANGED <<alive, launches>>

\* proc.terminate(): a signal to a running child, nothing to an exited one.
C_Terminate ==
  /\ h_pc = "C_terminate"
  /\ signalled' = (child = "running")
  /\ h_pc' = "C_wait"
  /\ UNCHANGED <<cwd, exe_exists, files, child, child_rc, result, pair_idx,
                 success_count, partial_size, final_size, results, started,
                 h_out, h_exit>>
  /\ UNCHANGED r_vars
  /\ UNCHANGED <<alive, launches>>

\* A variant that does not wait for the child.
C_Wait_Skipped ==
  /\ h_pc = "C_wait"
  /\ h_pc' = "C_partial"
  /\ UNCHANGED <<cwd, exe_exists, files, child, child_rc, signalled, result,
                 pair_idx, success_count, partial_size, final_size, results,
                 started, h_out, h_exit>>
  /\ UNCHANGED r_vars
  /\ UNCHANGED <<alive, launches>>

\* proc.wait(), without a timeout: returns once the child has exited.
C_Wait ==
  /\ h_pc = "C_wait"
  /\ child = "exited"
  /\ child' = "none"
  /\ h_pc' = "C_partial"
  /\ UNCHANGED <<cwd, exe_exists, files, child_rc, signalled, result, pair_idx,
                 success_count, partial_size, final_size, results, started,
                 h_out, h_exit>>
  /\ UNCHANGED r_vars
  /\ UNCHANGED <<alive, launches>>

\* The partial size, printed only.
C_Partial ==
  /\ h_pc = "C_partial"
  /\ partial_size' = IF files[Dest].exists THEN files[Dest].size ELSE 0
  /\ h_pc' = "C_launch"
  /\ UNCHANGED <<cwd, exe_exists, files, child, child_rc, signalled, result,
                 pair_idx, success_count, final_size, results, started, h_out,
                 h_exit>>
  /\ UNCHANGED r_vars
  /\ UNCHANGED <<alive, launches>>

C_Launch == RunLaunch("C_launch", "C_wait2", "C_check")
C_Wait2 == RunWait("C_wait2", "C_check")

\* test_resume after the second run(): the checks, the finally, the return;
\* then main appends the verdict.
C_Check ==
  /\ h_pc = "C_check"
  /\ final_size' = IF result.kind = "exit" /\ result.returncode = 0
                       /\ files[Dest].exists
                    THEN files[Dest].size ELSE final_size
  /\ results' = Append(results, <<"Resume Functionality",
                                  ResumeVerdict(result, files[Dest])>>)
  /\ files' = Cleanup(files, Dest)
  /\ h_pc' = "summary"
  /\ UNCHANGED <<cwd, exe_exists, child, child_rc, signalled, result, pair_idx,
                 success_count, partial_size, started, h_out, h_exit>>
  /\ UNCHANGED r_vars
  /\ UNCHANGED <<alive, launches>>

\* main: the summary and the return value, which sys.exit takes.
H_Summary ==
  /\ h_pc = "summary"
  /\ h_out' = h_out \o SummaryLines(results)
  /\ h_exit' = ExitCode(results)
  /\ h_pc' = "exited"
  /\ UNCHANGED <<cwd, exe_exists, files, child, child_rc, signalled, result,
                 pair_idx, success_count, partial_size, final_size, results, started>>
  /\ UNCHANGED r_vars
  /\ UNCHANGED <<alive, launches>>

H_Next ==
  \/ H_Main
  \/ H_CheckExe
  \/ A_Launch
  \/ A_Wait
  \/ A_Check
  \/ B_Launch
  \/ B_Wait
  \/ B_Check
  \/ B_Return
  \/ C_Popen
  \/ C_Sleep
  \/ C_Terminate
  \/ C_Wait
  \/ C_Partial
  \/ C_Launch
  \/ C_Wait2
  \/ C_Check
  \/ H_Summary
  \/ P_Write
  \/ P_Exit

\* ---------------------------------------------------------- specifications
\* The two programs run separately: each specification runs one of them and
\* leaves the other at its initial state.
R_Idle ==
  /\ argv = "none"
  /\ directory = <<>>
  /\ r_pc = "main"
  /\ xml_files = <<>>
  /\ idx = 0
  /\ all_results = <<>>
  /\ total_tests = 0
  /\ total_failures = 0
  /\ total_errors = 0
  /\ total_time = 0
  /\ report = <<>>
  /\ r_out = <<>>
  /\ r_exit = NoExit

H_Idle ==
  /\ cwd = "elsewhere"
  /\ exe_exists = FALSE
  /\ h_pc = "main"
  /\ files = [d \in Dests |-> NoFile]
  /\ child = "none"
  /\ child_rc = 0
  /\ signalled = FALSE
  /\ result = NoResult
  /\ pair_idx = 0
  /\ success_count = 0
  /\ partial_size = 0
  /\ final_size = 0
  /\ results = <<>>
  /\ started = <<>>
  /\ h_out = <<>>
  /\ h_exit = NoExit
  /\ alive = 0
  /\ launches = [sc \in Scenarios |-> 0]

ReportInit == R_Init /\ H_Idle
HarnessInit == H_Init /\ R_Idle

\* The steps of the harness itself, without those of the downloader.
HarnessStep ==
  \/ H_Main
  \/ H_CheckExe
  \/ A_Launch
  \/ A_Wait
  \/ A_Check
  \/ B_Launch
  \/ B_Wait
  \/ B_Check
  \/ B_Return
  \/ C_Popen
  \/ C_Sleep
  \/ C_Terminate
  \/ C_Wait
  \/ C_Partial
  \/ C_Launch
  \/ C_Wait2
  \/ C_Check
  \/ H_Summary

SpecReport == ReportInit /\ [][R_Next]_vars
SpecHarness == HarnessInit /\ [][H_Next]_vars

\* The harness takes its next step whenever it can; the downloader owes
\* nothing. With a downloader that always exits in the end: SpecHarnessExits.
SpecHarnessFair == SpecHarness /\ WF_vars(HarnessStep)
SpecHarnessExits == SpecHarnessFair /\ WF_vars(P_Exit)

\* ------------------------------------------------ properties: the report
RECURSIVE SeqSum(_)
SeqSum(q) == IF q = <<>> THEN 0 ELSE q[1] + SeqSum(Tail(q))

\* The value an attribute declares (0 when the attribute is not there).
Declared(a) == IF a.k = "num" THEN a.v ELSE 0

\* A well-formed artifact: a suite container whose numbers are numbers.
WellFormed(f) ==
  /\ f.kind = "suite"
  /\ f.tests.k # "bad" /\ f.failures.k # "bad" /\ f.errors.k # "bad"
  /\ f.time.k # "bad"
  /\ \A k \in 1..Len(f.cases) : f.cases[k].time.k # "bad"

ParsedOk(f) == parse_xml_file(f) # <<>>

\* The files the loop has gone through.
Processed ==
  IF r_pc = "loop" THEN SubSeq(xml_files, 1, idx - 1)
  ELSE IF report # <<>> THEN xml_files
  ELSE <<>>

ParsedFiles == SelectSeq(Processed, ParsedOk)
ValidFiles == SelectSeq(Processed, WellFormed)

DeclaredTests(fs) == [k \in 1..Len(fs) |-> Declared(fs[k].tests)]
DeclaredFailures(fs) == [k \in 1..Len(fs) |-> Declared(fs[k].failures)]
DeclaredErrors(fs) == [k \in 1..Len(fs) |-> Declared(fs[k].errors)]
DeclaredTimes(fs) == [k \in 1..Len(fs) |-> Declared(fs[k].time)]
CaseCounts(fs) == [k \in 1..Len(fs) |-> Len(fs[k].cases)]

\* C1: the totals are the sums of the declared tests, failures and errors
\* over exactly the successfully parsed suites, whatever the number of case
\* entries; the summary block shows these totals.
C1_TotalsAreDeclaredSums ==
  /\ total_tests = SeqSum(DeclaredTests(ParsedFiles))
  /\ total_failures = SeqSum(DeclaredFailures(ParsedFiles))
  /\ total_errors = SeqSum(DeclaredErrors(ParsedFiles))
  /\ Len(all_results) = Len(ParsedFiles)
  /\ report # <<>> =>
       /\ report[1].summary.tests = SeqSum(DeclaredTests(ParsedFiles))
       /\ report[1].summary.failures = SeqSum(DeclaredFailures(ParsedFiles))
       /\ report[1].summary.errors = SeqSum(DeclaredErrors(ParsedFiles))

\* A report over two suites whose declared tests differ from their case counts.
C1_Witness ==
  /\ report # <<>>
  /\ Len(ParsedFiles) = 2
  /\ report[1].summary.tests > SeqSum(CaseCounts(ParsedFiles))
  /\ Len(ParsedFiles[1].cases) > Declared(ParsedFiles[1].tests)
  /\ report[1].summary.failures > 0
  /\ report[1].summary.errors > 0

\* C2: every parsed suite's elapsed time is its declared `time`, with case
\* entries or without, and the total elapsed time is the sum of these.
C2_DeclaredSuiteTime ==
  /\ Len(all_results) = Len(ParsedFiles)
  /\ \A k \in 1..Len(all_results) :
       all_results[k].time = Declared(ParsedFiles[k].time)
  /\ total_time = SeqSum(DeclaredTimes(ParsedFiles))
  /\ report # <<>> =>
       \A k \in 1..Len(report[1].rows) :
         report[1].rows[k].time = Declared(ParsedFiles[k].time)

\* The part of C2 the code keeps: a suite without case entries.
C2_NoCaseSuiteTime ==
  \A k \in 1..Len(all_results) :
    ParsedFiles[k].cases = <<>> =>
      all_results[k].time = Declared(ParsedFiles[k].time)

\* C3: every row's passed value, and the summary's, is tests - failures -
\* errors of the declared counts, unclamped and whatever the cases say.
C3_PassedIdentity ==
  report # <<>> =>
    /\ Len(report[1].rows) = Len(ParsedFiles)
    /\ \A k \in 1..Len(report[1].rows) :
         report[1].rows[k].passed =
           Declared(ParsedFiles[k].tests) - Declared(ParsedFiles[k].failures)
             - Declared(ParsedFiles[k].errors)
    /\ report[1].summary.passed =
         SeqSum(DeclaredTests(ParsedFiles))
           - SeqSum(DeclaredFailures(ParsedFiles))
           - SeqSum(DeclaredErrors(ParsedFiles))

PassCount(f) ==
  Cardinality({k \in 1..Len(f.cases) :
                 ~f.cases[k].failure.present /\ ~f.cases[k].error.present})

\* A negative row, a negative summary, and a row that differs from the
\* number of passing cases of its suite.
C3_Witness ==
  /\ report # <<>>
  /\ report[1].summary.passed < 0
  /\ \E k \in 1..Len(report[1].rows) : report[1].rows[k].passed < 0
  /\ \E k \in 1..Len(report[1].rows) :
       /\ report[1].rows[k].passed >= 0
       /\ report[1].rows[k].passed # PassCount(ParsedFiles[k])

\* C4: bad files (malformed, or without a suite container) never stop the
\* run: with at least one matching file the loop goes through every file
\* and the report is written, with one row per valid artifact, in order,
\* and totals that are those of the valid artifacts alone.
C4_SkipBadFiles ==
  /\ Len(all_results) = Len(ValidFiles)
  /\ total_tests = SeqSum(DeclaredTests(ValidFiles))
  /\ total_failures = SeqSum(DeclaredFailures(ValidFiles))
  /\ total_errors = SeqSum(DeclaredErrors(ValidFiles))
  /\ (r_pc = "exited" /\ xml_files # <<>>) =>
       /\ report # <<>>
       /\ Processed = xml_files
       /\ Len(report[1].rows) = Len(ValidFiles)
       /\ \A k \in 1..Len(ValidFiles) :
            /\ report[1].rows[k].name = SuiteName(ValidFiles[k])
            /\ report[1].rows[k].tests = Declared(ValidFiles[k].tests)
            /\ report[1].rows[k].failures = Declared(ValidFiles[k].failures)
            /\ report[1].rows[k].errors = Declared(ValidFiles[k].errors)

\* A report whose first file was bad and whose later file was valid, and
\* one line of diagnostic for the malformed file.
C4_Witness ==
  /\ report # <<>>
  /\ Len(xml_files) = MaxFiles
  /\ ~WellFormed(xml_files[1])
  /\ WellFormed(xml_files[MaxFiles])
  /\ Declared(xml_files[MaxFiles].tests) > 0
  /\ Len(report[1].rows) = Len(xml_files) - 1

\* C5: a report is written only when at least one suite was parsed; when
\* the directory yields none, "no input" is printed and nothing is written.
C5_NoReportWithoutSuites ==
  /\ report # <<>> => Len(report[1].rows) >= 1
  /\ (r_pc = "exited" /\ argv = "dir" /\ SelectSeq(Glob(directory), ParsedOk) = <<>>) =>
       /\ report = <<>>
       /\ r_out # <<>>
       /\ r_out[Len(r_out)] = "no xml files"

\* The part of C5 the code keeps: no matching file, no report.
C5_NoReportWithoutFiles ==
  (r_pc = "exited" /\ Glob(directory) = <<>>) => report = <<>>

RECURSIVE Flatten(_)
Flatten(q) == IF q = <<>> THEN <<>> ELSE q[1] \o Flatten(Tail(q))

HasMarker(c) == c.failure.present \/ c.error.present
MarkerLabel(c) == IF c.error.present THEN "ERROR" ELSE "FAIL"
MarkerMessage(c) ==
  IF c.error.present THEN c.error.message ELSE c.failure.message

\* What the detail section is to list for one case with a marker.
ExpectedEntry(c) ==
  [test |-> <<c.classname, c.name>>, status |-> MarkerLabel(c),
   shows_message |-> MarkerMessage(c) # "", message |-> MarkerMessage(c)]

ExpectedEntries(f) ==
  LET m == SelectSeq(f.cases, HasMarker)
  IN  [k \in 1..Len(m) |-> ExpectedEntry(m[k])]

\* What the detail section lists, as the same records.
ListedEntry(e) ==
  [test |-> e.test, status |-> e.status, shows_message |-> e.shows_message,
   message |-> e.message]

ListedEntries(doc) ==
  LET all == Flatten([k \in 1..Len(doc.details) |-> doc.details[k].entries])
  IN  [k \in 1..Len(all) |-> ListedEntry(all[k])]

SumPositive(f) == Declared(f.failures) + Declared(f.errors) > 0
AnyPositive(f) == Declared(f.failures) > 0 \/ Declared(f.errors) > 0

\* C6 as stated: the cases listed are exactly the non-PASS cases of the
\* suites whose declared failures + errors is greater than 0.
C6_ListedIffSumPositive ==
  report # <<>> =>
    ListedEntries(report[1]) =
      Flatten([k \in 1..Len(ParsedFiles) |->
                 IF SumPositive(ParsedFiles[k])
                 THEN ExpectedEntries(ParsedFiles[k]) ELSE <<>>])

\* C6 as amended: the cases listed are exactly the non-PASS cases of the
\* suites whose declared failures or declared errors is greater than 0, each
\* with its status label and its message when non-empty.
C6_ListedIffAnyPositive ==
  report # <<>> =>
    /\ ListedEntries(report[1]) =
         Flatten([k \in 1..Len(ParsedFiles) |->
                    IF AnyPositive(ParsedFiles[k])
                    THEN ExpectedEntries(ParsedFiles[k]) ELSE <<>>])
    /\ \A k \in 1..Len(report[1].details) :
         \A n \in 1..Len(report[1].details[k].entries) :
           report[1].details[k].entries[n].status \in {"FAIL", "ERROR"}

\* A report that lists a FAIL case with its message and an ERROR case, next
\* to a suite declaring no failure and no error whose non-PASS case is not
\* listed.
C6_Witness ==
  /\ report # <<>>
  /\ Len(ParsedFiles) = 2
  /\ Declared(ParsedFiles[1].failures) = 0
  /\ Declared(ParsedFiles[1].errors) = 0
  /\ ExpectedEntries(ParsedFiles[1]) # <<>>
  /\ Len(ListedEntries(report[1])) = 2
  /\ \E n \in 1..2 : /\ ListedEntries(report[1])[n].status = "FAIL"
                       /\ ListedEntries(report[1])[n].shows_message
  /\ \E n \in 1..2 : ListedEntries(report[1])[n].status = "ERROR"

\* C10: every fatal condition ends the process with a diagnostic and a
\* nonzero exit status: for the report generator a missing or non-directory
\* argument and a directory without artifacts, for the harness a missing
\* executable, with no scenario run.
C10_FatalExitsNonzero ==
  /\ (r_pc = "exited" /\ (argv # "dir" \/ Glob(directory) = <<>>)) =>
       r_exit # 0 /\ r_out # <<>>
  /\ (h_pc = "exited" /\ (cwd = "elsewhere" \/ ~exe_exists)) =>
       h_exit # 0 /\ h_out # <<>> /\ started = <<>>

\* The part of C10 the code keeps: the argument checks and the executable
\* check.
C10_ArgumentAndExecutable ==
  /\ (r_pc = "exited" /\ argv # "dir") => r_exit = 1 /\ r_out # <<>>
  /\ (h_pc = "exited" /\ (cwd = "elsewhere" \/ ~exe_exists)) =>
       h_exit = 1 /\ h_out # <<>> /\ started = <<>>

\* ----------------------------------------------- properties: the harness
PastExeCheck == cwd # "elsewhere" /\ exe_exists
Ended == h_pc \in {"exited", "crashed"}
Failed(rs) == \E k \in 1..Len(rs) : ~rs[k][2]

\* C7: a run that gets past the executable check executes A, B and C once
\* each, in this order, whatever the earlier verdicts; the summary reports
\* all three, and the exit status is nonzero iff a scenario failed.
C7_CollectAll ==
  (Ended /\ PastExeCheck) =>
    /\ started = <<"A", "B", "C">>
    /\ Len(results) = 3
    /\ h_out = SummaryLines(results)
    /\ Len(h_out) = 3
    /\ (h_exit # 0) = Failed(results)

\* The part of C7 the code keeps: the order of the scenarios, and the
\* summary and exit status of a run in which test_resume returns.
C7_CollectAllWhenReturned ==
  /\ \E n \in 0..3 : started = SubSeq(<<"A", "B", "C">>, 1, n)
  /\ (h_pc \in {"summary", "exited"} /\ PastExeCheck) =>
       started = <<"A", "B", "C">> /\ Len(results) = 3
  /\ (h_pc = "exited" /\ PastExeCheck) =>
       /\ h_out = SummaryLines(results)
       /\ (h_exit # 0) = Failed(results)

\* The positions at which a downloader has been started on Dest and Dest
\* is not yet cleaned up.
InProgress ==
  {"A_wait", "A_check", "B_wait", "B_check", "C_sleep", "C_terminate",
   "C_wait", "C_partial", "C_launch", "C_wait2", "C_check"}

\* C8: a destination file exists only while its own scenario (in B, its own
\* pair) is in progress: it is gone when the scenario returns, before the
\* next pair of B starts, and when the harness ends, on every path.
C8_CleanupGuarantee ==
  /\ \A d \in Dests : files[d].exists => (d = Dest /\ h_pc \in InProgress)
  /\ h_pc = "B_launch" =>
       \A k \in 1..Len(urls) : ~files[urls[k]].exists
  /\ Ended => \A d \in Dests : ~files[d].exists

\* The harness has returned after a failed resume scenario that had left a
\* partial file, and after a timed-out second run.
C8_Witness ==
  /\ h_pc = "exited"
  /\ Len(results) = 3
  /\ ~results[3][2]
  /\ partial_size > 0
  /\ result = TimeoutExpired
  /\ \A d \in Dests : ~files[d].exists

\* C9: test_resume returns pass iff the second run exited 0 within its
\* timeout, the destination exists and its size is the full size; the
\* partial size and the first run's exit status play no part.
C9_ResumeVerdict ==
  [][h_pc = "C_check" =>
       /\ Len(results') = 3
       /\ results'[3][2] =
            (/\ result.kind = "exit"
             /\ result.returncode = 0
             /\ files["resume_test.bin"].exists
             /\ files["resume_test.bin"].size = FullSize)]_vars

\* Both verdicts after the same partial size: a pass, and a fail on a
\* destination larger than the full size after a second run that exited 0.
C9_Witness ==
  /\ h_pc = "summary"
  /\ partial_size = FullSize - 512
  /\ result = Exit(0)
  /\ results[3][2]
  /\ final_size = FullSize

C9_WitnessLarger ==
  /\ h_pc = "summary"
  /\ result = Exit(0)
  /\ ~results[3][2]
  /\ final_size > FullSize

\* A process error as subprocess.run reports it: a launch error, a timeout,
\* or a nonzero exit status.
ProcessError(res) ==
  res.kind \in {"oserror", "timeout"}
    \/ (res.kind = "exit" /\ res.returncode # 0)

LastVerdict(rs) == rs[Len(rs)][2]

\* C11: a process error at any launch or wait step of any scenario becomes
\* a False verdict and never leaves the scenario as an unhandled exception:
\* the harness does not crash, and ends with three verdicts and its summary.
C11_ProcessErrorIsVerdict ==
  /\ h_pc # "crashed"
  /\ (Ended /\ PastExeCheck) => (Len(results) = 3 /\ Len(h_out) = 3)
  /\ (h_pc = "summary" /\ ProcessError(result)) => ~LastVerdict(results)

\* The part of C11 the code keeps: a process error that subprocess.run
\* reports (A, every pair of B, the second run of C) becomes a False verdict
\* or an uncounted pair.
C11_RunErrorIsVerdict ==
  [][/\ (h_pc \in {"A_check", "C_check"} /\ ProcessError(result)) =>
          ~LastVerdict(results')
     /\ (h_pc = "B_check" /\ ProcessError(result)) =>
          success_count' = success_count]_vars

\* C12: test_http_download returns pass iff the run exited 0 within its
\* timeout and the output file exists, is not empty and contains the
\* substring; otherwise it returns fail.
C12_HttpVerdict ==
  [][h_pc = "A_check" =>
       /\ Len(results') = 1
       /\ results'[1][2] =
            (/\ result.kind = "exit"
             /\ result.returncode = 0
             /\ files["test_download.json"].exists
             /\ files["test_download.json"].size > 0
             /\ files["test_download.json"].slideshow)]_vars

\* Scenario A has passed, after a run that exited 0.
C12_Witness ==
  /\ h_pc = "B_launch"
  /\ pair_idx = 1
  /\ result = Exit(0)
  /\ results = <<<<"Basic HTTP Download", TRUE>>>>

\* Scenario A has failed after a run that exited 0.
C12_WitnessFail ==
  /\ h_pc = "B_launch"
  /\ pair_idx = 1
  /\ result = Exit(0)
  /\ results = <<<<"Basic HTTP Download", FALSE>>>>

\* C13: test_multiple_downloads runs every pair of the list, in list order,
\* whatever the earlier pairs did; a pair counts iff its run exited 0 and its
\* destination exists; the scenario passes iff all pairs counted.
C13_MultipleDownloads ==
  [][/\ h_pc = "B_check" =>
          /\ launches["B"] = pair_idx
          /\ success_count' = success_count +
               (IF /\ result.kind = "exit"
                   /\ result.returncode = 0
                   /\ files[urls[pair_idx]].exists
                THEN 1 ELSE 0)
          /\ IF pair_idx < Len(urls)
             THEN h_pc' = "B_launch" /\ pair_idx' = pair_idx + 1
             ELSE h_pc' = "B_return"
     /\ h_pc = "B_return" =>
          /\ launches["B"] = Len(urls)
          /\ Len(results') = 2
          /\ results'[2][2] = (success_count = Len(urls))]_vars

\* Scenario B has failed with two of the three pairs counted, the last pair
\* having run after a pair that timed out or failed.
C13_Witness ==
  /\ h_pc = "C_popen"
  /\ success_count = Len(urls) - 1
  /\ result = Exit(0)
  /\ results[2] = <<"Multiple Downloads", FALSE>>

AllScenariosPassed == Len(results) = 3 /\ ~Failed(results)
AllSuitesPassed ==
  \A k \in 1..Len(all_results) :
    all_results[k].failures = 0 /\ all_results[k].errors = 0

\* C14: the exit status is 0 iff everything passed: for the harness iff all
\* three scenarios passed, for the report generator iff every parsed suite
\* declares no failure and no error.
C14_ExitZeroIffAllPassed ==
  /\ (Ended /\ PastExeCheck) => ((h_exit = 0) = AllScenariosPassed)
  /\ (r_pc = "exited" /\ report # <<>>) => ((r_exit = 0) = AllSuitesPassed)

\* The part of C14 the code keeps: the harness.
C14_HarnessExit ==
  (Ended /\ PastExeCheck) => ((h_exit = 0) = AllScenariosPassed)

\* C15: every wait of the harness for a launched process is bounded by a
\* timeout, the wait after the termination request included: whatever the
\* downloader does, the harness is never blocked before it has ended.
C15_NeverBlocked == Ended \/ ENABLED HarnessStep

\* C15, its conclusion: the harness eventually ends.
C15_Terminates == <>Ended

\* The part of C15 the code keeps: the waits of subprocess.run are bounded.
C15_RunWaitsBounded ==
  h_pc # "C_wait" => (Ended \/ ENABLED HarnessStep)

\* The steps of test_resume, in the order of its text.
ResumeSteps ==
  <<"C_popen", "C_sleep", "C_terminate", "C_wait", "C_partial", "C_launch",
    "C_wait2", "C_check", "summary">>

\* The number of a step, 0 for a position outside test_resume.
StepNo(pc) ==
  IF \E n \in 1..Len(ResumeSteps) : ResumeSteps[n] = pc
  THEN CHOOSE n \in 1..Len(ResumeSteps) : ResumeSteps[n] = pc
  ELSE 0

\* C16: within Scenario C the steps occur in the order start, delay,
\* terminate request, wait for exit, restart on the same destination, bounded
\* wait, assert: the request is issued only after the delay, the second
\* invocation starts only when the first process has exited, and the size
\* assertion is made only after the second invocation has completed.
C16_ResumeStepOrder ==
  [][/\ (h_pc \in {"C_popen", "C_sleep", "C_terminate", "C_wait", "C_partial",
                    "C_launch", "C_wait2", "C_check"} /\ h_pc' # h_pc) =>
          \/ StepNo(h_pc') = StepNo(h_pc) + 1
          \/ h_pc = "C_popen" /\ h_pc' = "crashed"
          \/ h_pc = "C_launch" /\ h_pc' = "C_check" /\ result' = OSError
     /\ (signalled' /\ ~signalled) =>
          h_pc = "C_terminate" /\ launches["C"] = 1
     /\ (h_pc = "C_wait" /\ h_pc' # h_pc) => child = "exited"
     /\ launches'["C"] = 2 /\ launches["C"] = 1 =>
          /\ h_pc = "C_launch"
          /\ child # "running"
          /\ alive = 0
          /\ Dest' = Dest
     /\ (Len(results') = 3 /\ Len(results) = 2) =>
          /\ h_pc = "C_check"
          /\ launches["C"] = 2
          /\ result # NoResult
          /\ alive = 0]_vars

\* The check step of Scenario C is reached after a signalled first process
\* that left a partial file and a second run that exited.
C16_Witness ==
  /\ h_pc = "C_check"
  /\ launches["C"] = 2
  /\ partial_size = FullSize - 512
  /\ result.kind = "exit"
  /\ files["resume_test.bin"].exists

\* C17: a timed-out invocation always ends in a fail verdict (in B, in an
\* uncounted pair); a verdict, once recorded, is never changed; nothing is
\* retried: no scenario is entered twice, and a scenario that has returned
\* has made 1 launch (A), one per pair (B), 2 launches (C).
C17_NoRetry ==
  [][/\ (h_pc \in {"A_check", "C_check"} /\ result = TimeoutExpired) =>
          ~LastVerdict(results')
     /\ (h_pc = "B_check" /\ result = TimeoutExpired) =>
          success_count' = success_count
     /\ Len(results') >= Len(results)
     /\ \A k \in 1..Len(results) : results'[k] = results[k]
     /\ \E n \in 0..3 : started' = SubSeq(<<"A", "B", "C">>, 1, n)
     /\ \A sc \in Scenarios : launches'[sc] >= launches[sc]
     /\ launches'["A"] <= 1
     /\ launches'["B"] <= Len(urls)
     /\ launches'["C"] <= 2
     /\ Len(results') >= 1 => launches'["A"] = 1
     /\ Len(results') >= 2 => launches'["B"] = Len(urls)
     /\ Len(results') >= 3 => launches'["C"] = 2]_vars

\* All three scenarios have returned, C failed after a timed-out second run.
C17_Witness ==
  /\ h_pc = "summary"
  /\ result = TimeoutExpired
  /\ launches = [sc \in Scenarios |->
                   IF sc = "A" THEN 1 ELSE IF sc = "B" THEN Len(urls) ELSE 2]
  /\ results[3] = <<"Resume Functionality", FALSE>>

\* C18: at most one downloader process launched by the harness is alive at
\* any time: no launch is made while an earlier process is alive, in
\* Scenario C the second one included.
C18_OneProcessAlive ==
  /\ alive \in {0, 1}
  /\ alive = 1 => child = "running"
  /\ h_pc \in {"A_launch", "B_launch", "C_popen", "C_launch"} => alive = 0
  /\ Ended => alive = 0

\* The second process of Scenario C is alive, alone, after the first one
\* had been signalled and had left a partial file.
C18_Witness ==
  /\ h_pc = "C_wait2"
  /\ alive = 1
  /\ launches["C"] = 2
  /\ partial_size > 0

\* The files of the listing that parse, in order: all_results[k] is what
\* was parsed from the k-th of them.
ParsedSources == SelectSeq(xml_files, ParsedOk)

\* The `message` attribute of a marker, empty when the attribute is absent.
MessageOf(m) == IF m.hasMsg THEN m.message ELSE ""

\* P(c, p) for every case entry c of a parsed file and the case p parsed
\* from it.
ForAllCases(P(_, _)) ==
  \A k \in 1..Len(all_results) :
    /\ Len(all_results[k].test_cases) = Len(ParsedSources[k].cases)
    /\ \A n \in 1..Len(all_results[k].test_cases) :
         P(ParsedSources[k].cases[n], all_results[k].test_cases[n])

SomeCase(P(_, _)) ==
  \E k \in 1..Len(all_results) :
    \E n \in 1..Len(all_results[k].test_cases) :
      P(ParsedSources[k].cases[n], all_results[k].test_cases[n])

MessageByStatus(c, p) ==
  /\ p.status = "PASS" => p.message = ""
  /\ p.status = "FAIL" => p.message = MessageOf(c.failure)
  /\ p.status = "ERROR" => p.message = MessageOf(c.error)

StatusAsClaimed(c, p) ==
  /\ p.status \in {"PASS", "FAIL", "ERROR"}
  /\ p.status = "PASS" <=> (~c.failure.present /\ ~c.error.present)
  /\ p.status = "FAIL" <=> c.failure.present
  /\ p.status = "ERROR" <=> c.error.present
  /\ MessageByStatus(c, p)

StatusAmended(c, p) ==
  /\ p.status \in {"PASS", "FAIL", "ERROR"}
  /\ p.status = "PASS" <=> (~c.failure.present /\ ~c.error.present)
  /\ p.status = "FAIL" <=> (c.failure.present /\ ~c.error.present)
  /\ p.status = "ERROR" <=> c.error.present
  /\ MessageByStatus(c, p)

\* C19 (as claimed): every parsed case has one status of PASS, FAIL, ERROR:
\* PASS iff it carries no marker, FAIL iff it carries a failure marker,
\* ERROR iff it carries an error marker; its message is empty when PASS and
\* otherwise the message attribute of the marker that set the status.
C19_StatusByMarker == ForAllCases(StatusAsClaimed)

\* C19 (amended): as claimed, except that a case is FAIL iff it carries a
\* failure marker and no error marker.
C19_StatusByMarkerAmended == ForAllCases(StatusAmended)

IsPass(c, p) == p.status = "PASS"
IsFailWithMessage(c, p) == p.status = "FAIL" /\ p.message # ""
IsErrorWithoutMessage(c, p) ==
  p.status = "ERROR" /\ ~c.error.hasMsg /\ p.message = ""

\* The report was written from cases of all three statuses.
C19_Witness ==
  /\ report # <<>>
  /\ SomeCase(IsPass)
  /\ SomeCase(IsFailWithMessage)
  /\ SomeCase(IsErrorWithoutMessage)

HasBoth(c, p) == c.failure.present /\ c.error.present

ErrorPrecedence(c, p) ==
  HasBoth(c, p) =>
    /\ p.status = "ERROR"
    /\ p.message = MessageOf(c.error)
    /\ p.name = c.name

\* C20: a case entry with both a failure and an error marker is parsed as
\* ERROR with the error marker's message, the failure marker's message is
\* dropped, and the entry is still one case of the suite.
C20_ErrorPrecedence == ForAllCases(ErrorPrecedence)

BothWithDistinctMessages(c, p) ==
  /\ HasBoth(c, p)
  /\ MessageOf(c.failure) # MessageOf(c.error)
  /\ p.status = "ERROR"

\* The report was written from a suite with a case carrying both markers,
\* whose messages differ.
C20_Witness ==
  /\ report # <<>>
  /\ SomeCase(BothWithDistinctMessages)

====
